---- MODULE Spec2Model ----
(***************************************************************************)
(* DriverPro notification service (src/app.js).                            *)
(*                                                                         *)
(* src/app.js holds two texts of the service one after the other: lines    *)
(* 1-261 (variant 1) and lines 264-461 (variant 2).  `variant` selects the *)
(* text that runs.  The JavaScript event loop runs a callback up to its    *)
(* next `await`; an action below is such a run, or one loop iteration or   *)
(* one handler call of it.  Time is not modelled: a pending timer is one   *)
(* whose 5000 ms have not run out.                                         *)
(***************************************************************************)
EXTENDS Naturals, Integers, Sequences, FiniteSets, Bags, TLC

VARIABLES
    variant,              \* 1: lines 1-261, 2: lines 264-461
    missingVars,          \* required environment variables that are unset
    phase,                \* position of the start-up code
    exitCode,             \* NotExited, or the code given to process.exit
    server,               \* the HTTP listener
    reservationListener,  \* the stored unsubscribe handle (0: undefined)
    subsCreated,          \* number of onSnapshot subscriptions opened so far
    active,               \* subscriptions (by number) that still deliver
    invoked,              \* per subscription: how often its handle was called
    timers,               \* pending setTimeout(setupReservationListener, 5000)
    signals,              \* SIGTERM/SIGINT handler runs so far
    shutdownLog,          \* what the shutdown path did, in order
    tasks,                \* bag of the runs of the async snapshot callback in flight
    sends,                \* sgMail.send calls made by the change handler
    fetchedKinds          \* change kinds for which a driver fetch was issued

vars == <<variant, missingVars, phase, exitCode, server, reservationListener,
          subsCreated, active, invoked, timers, signals, shutdownLog, tasks,
          sends, fetchedKinds>>

lifecycleVars == <<variant, missingVars, phase, exitCode, server,
                   reservationListener, subsCreated, active, invoked, timers,
                   signals, shutdownLog>>

-----------------------------------------------------------------------------
(* Bounds *)

MaxBatch   == 2   \* changes in one delivered snapshot
MaxTasks   == 2   \* snapshot callbacks in flight at once
MaxSubs    == 3   \* subscriptions opened in one run of the process
MaxSignals == 2   \* termination signals delivered to the process

-----------------------------------------------------------------------------
(* Program constants *)

RESUBSCRIBE_DELAY_MS == 5000

NotExited == -1

requiredEnvVars ==
    {"FIREBASE_PROJECT_ID", "FIREBASE_CLIENT_EMAIL", "FIREBASE_PRIVATE_KEY",
     "FIREBASE_DATABASE_URL", "SENDGRID_API_KEY", "SENDGRID_FROM_EMAIL"}

\* The environments explored: complete, the private key unset (the variable
\* that initializeApp dereferences), or the sender address unset (a variable
\* read only when a message is built).
EnvCases == {{}, {"FIREBASE_PRIVATE_KEY"}, {"SENDGRID_FROM_EMAIL"}}

emailTemplates ==
    [driver_confirm |-> [subject    |-> "Course confirmée par votre chauffeur",
                         templateId |-> "d-81602ae7361f4254b28d4ca883226242"],
     driver_cancel  |-> [subject    |-> "Annulation de votre course",
                         templateId |-> "d-a4ddb97407384b4fbb9b631ac4e35d57"]]

\* emailTemplates[key] for a key the object does not have
Undefined == [subject |-> "undefined", templateId |-> "undefined"]

\* .where('status', 'in', ['confirmed', 'cancelled'])
FilterStatuses == {"confirmed", "cancelled"}

ChangeTypes == {"added", "modified", "removed"}

\* documents of the drivers collection
DriverDocs == {"d1"}
DriverIds  == {"d1", "d2"}

\* change.doc.data() of a document the query matches: every combination of
\* status, driver and email with a numeric price, and the reservations with
\* driver and email in place whose price is absent or a string.
Reservations ==
    [status   : FilterStatuses,
     driverId : DriverIds,
     email    : {"", "a@b.com"},
     price    : {"number"}]
    \cup
    [status   : FilterStatuses,
     driverId : DriverDocs,
     email    : {"a@b.com"},
     price    : {"absent", "string"}]

NoReservation ==
    [status |-> "", driverId |-> "", email |-> "", price |-> "absent"]

SubIds == 1..MaxSubs

RECURSIVE SeqsUpTo(_, _)
SeqsUpTo(S, n) ==
    IF n = 0 THEN {<<>>}
    ELSE LET shorter == SeqsUpTo(S, n - 1)
         IN  shorter \cup {Append(q, e) : q \in shorter, e \in S}

\* snapshot.docChanges(): the change types, in the order of delivery
Batches == SeqsUpTo(ChangeTypes, MaxBatch)

\* A run of the snapshot callback.
\*   pc    "loop": just called; "skipped": the iteration for Head(rest) is
\*         over without a handler call; "fetch", "send": the handler call for
\*         Head(rest) awaits the driver document, the send; "done": that
\*         call is over
\*   rest  the changes from the current one on
\*   cur   the reservation of the handler call
\*   sent  sgMail.send calls of the handler call
\*   err, threw  how the handler call ended
NewTask(batch) ==
    [pc |-> "loop", rest |-> batch, cur |-> NoReservation, sent |-> 0,
     err |-> "none", threw |-> FALSE]

Running == exitCode = NotExited
Started == Running /\ phase = "started"

-----------------------------------------------------------------------------
(* Template resolution and the change handler *)

templateType(status) == "driver_" \o status

TemplateFor(status) ==
    IF templateType(status) \in DOMAIN emailTemplates
    THEN emailTemplates[templateType(status)]
    ELSE Undefined

\* The check `if (!template)` left out.
TemplateMissing_Never(status) == FALSE

\* if (!template)
TemplateMissing(status) == TemplateFor(status) = Undefined

\* if (!driverDoc.exists) / if (!driverData)
DriverMissing(res) == res.driverId \notin DriverDocs

\* if (!clientEmail)
EmailMissing(res) == res.email = ""

\* (price || 0).toFixed(2): a string has no toFixed
PriceThrows(res) == res.price = "string"

Outcome(e, t) == [err |-> e, threw |-> t]

\* Variant 1, lines 98-128: what the handler does once the driver document
\* has arrived, up to the send. "none" means the send is issued.
AfterFetch1(res) ==
    IF DriverMissing(res) THEN Outcome("DriverNotFound", TRUE)
    ELSE IF EmailMissing(res) THEN Outcome("MissingRecipient", TRUE)
    ELSE IF PriceThrows(res) THEN Outcome("TypeError", TRUE)
    ELSE IF TemplateMissing(res.status) THEN Outcome("UnknownStatus", TRUE)
    ELSE Outcome("none", FALSE)

\* Variant 2, lines 311-372: early returns instead of throws, the template
\* is looked up before the email, the price is formatted last.
AfterFetch2(res) ==
    IF DriverMissing(res) THEN Outcome("DriverNotFound", FALSE)
    ELSE IF TemplateMissing(res.status) THEN Outcome("UnknownStatus", FALSE)
    ELSE IF EmailMissing(res) THEN Outcome("MissingRecipient", FALSE)
    ELSE IF PriceThrows(res) THEN Outcome("TypeError", TRUE)
    ELSE Outcome("none", FALSE)

AfterFetch(res) == IF variant = 1 THEN AfterFetch1(res) ELSE AfterFetch2(res)

\* const msg = { to, from, subject, templateId, dynamic_template_data }
Message(res) ==
    [res        |-> res,
     subject    |-> TemplateFor(res.status).subject,
     templateId |-> TemplateFor(res.status).templateId]

-----------------------------------------------------------------------------
Init ==
    /\ variant \in {1, 2}
    /\ missingVars \in EnvCases
    /\ phase = "boot"
    /\ exitCode = NotExited
    /\ server = "none"
    /\ reservationListener = 0
    /\ subsCreated = 0
    /\ active = {}
    /\ invoked = [s \in SubIds |-> 0]
    /\ timers = 0
    /\ signals = 0
    /\ shutdownLog = <<>>
    /\ tasks = EmptyBag
    /\ sends = {}
    /\ fetchedKinds = {}

-----------------------------------------------------------------------------
(* Start-up *)

\* Variant 1, lines 36-40: exit(1) when a required variable is unset.
ValidateEnv ==
    /\ Running /\ variant = 1 /\ phase = "boot"
    /\ IF missingVars # {}
       THEN /\ exitCode' = 1
            /\ UNCHANGED phase
       ELSE /\ phase' = "validated"
            /\ UNCHANGED exitCode
    /\ UNCHANGED <<variant, missingVars, server, reservationListener,
                   subsCreated, active, invoked, timers, signals, shutdownLog,
                   tasks, sends, fetchedKinds>>

\* admin.initializeApp(...): process.env.FIREBASE_PRIVATE_KEY.replace throws
\* on an unset key. Variant 2 (lines 277-284) has no check before it and no
\* handler registered yet, so the process dies with code 1.
InitializeApp ==
    /\ Running
    /\ \/ variant = 1 /\ phase = "validated"
       \/ variant = 2 /\ phase = "boot"
    /\ IF "FIREBASE_PRIVATE_KEY" \in missingVars
       THEN /\ exitCode' = 1
            /\ UNCHANGED phase
       ELSE /\ phase' = "initialized"
            /\ UNCHANGED exitCode
    /\ UNCHANGED <<variant, missingVars, server, reservationListener,
                   subsCreated, active, invoked, timers, signals, shutdownLog,
                   tasks, sends, fetchedKinds>>

\* setupReservationListener(): opens a new subscription and returns its
\* unsubscribe handle (the number of the subscription).
NewSubscription == subsCreated + 1

\* reservationListener = setupReservationListener()   (lines 229, 457)
StartListener ==
    /\ Running /\ phase = "initialized"
    /\ subsCreated' = NewSubscription
    /\ active' = active \cup {NewSubscription}
    /\ reservationListener' = NewSubscription
    /\ phase' = "subscribed"
    /\ UNCHANGED <<variant, missingVars, exitCode, server, invoked, timers,
                   signals, shutdownLog, tasks, sends, fetchedKinds>>

\* server = app.listen(PORT, ...)   (lines 231, 459)
StartHttp ==
    /\ Running /\ phase = "subscribed"
    /\ server' = "listening"
    /\ phase' = "started"
    /\ UNCHANGED <<variant, missingVars, exitCode, reservationListener,
                   subsCreated, active, invoked, timers, signals, shutdownLog,
                   tasks, sends, fetchedKinds>>

-----------------------------------------------------------------------------
(* Subscription errors and reconnection *)

\* Events that lead to a new subscription are counted against MaxSubs.
MayScheduleResubscribe == subsCreated + timers < MaxSubs

\* The error callback giving up after the first reconnection.
SubscriptionError_GiveUp(s) ==
    /\ Started /\ s \in active
    /\ MayScheduleResubscribe
    /\ active' = active \ {s}
    /\ timers' = IF subsCreated < 2 THEN timers + 1 ELSE timers
    /\ UNCHANGED <<variant, missingVars, phase, exitCode, server,
                   reservationListener, subsCreated, invoked, signals,
                   shutdownLog, tasks, sends, fetchedKinds>>

\* The onSnapshot error callback (lines 175-178, 419-422). The store stops
\* the failed subscription; the callback only arms the timer.
SubscriptionError(s) ==
    /\ Started /\ s \in active
    /\ MayScheduleResubscribe
    /\ active' = active \ {s}
    /\ timers' = timers + 1
    /\ UNCHANGED <<variant, missingVars, phase, exitCode, server,
                   reservationListener, subsCreated, invoked, signals,
                   shutdownLog, tasks, sends, fetchedKinds>>

\* The timer runs setupReservationListener; its return value is dropped.
ResubscribeTimer ==
    /\ Started /\ timers > 0
    /\ timers' = timers - 1
    /\ subsCreated' = NewSubscription
    /\ active' = active \cup {NewSubscription}
    /\ UNCHANGED <<variant, missingVars, phase, exitCode, server,
                   reservationListener, invoked, signals, shutdownLog, tasks,
                   sends, fetchedKinds>>

\* if (reservationListener) reservationListener();
InvokeStoredHandle(inv) ==
    IF reservationListener # 0
    THEN [inv EXCEPT ![reservationListener] = @ + 1]
    ELSE inv

\* The stored handle ending every subscription, not only its own.
ReleaseStoredHandle_All(act) ==
    IF reservationListener # 0 THEN {} ELSE act

\* Calling the handle of a subscription ends that subscription; calling it
\* again changes nothing.
ReleaseStoredHandle(act) ==
    IF reservationListener # 0 THEN act \ {reservationListener} ELSE act

\* process.on('uncaughtException'): variant 1 (lines 187-190) exits with 1;
\* variant 2 (lines 427-431) calls the stored handle and arms the timer.
UncaughtException ==
    /\ Started
    /\ IF variant = 1
       THEN /\ exitCode' = 1
            /\ UNCHANGED <<invoked, active, timers>>
       ELSE /\ MayScheduleResubscribe
            /\ invoked' = InvokeStoredHandle(invoked)
            /\ active' = ReleaseStoredHandle(active)
            /\ timers' = timers + 1
            /\ UNCHANGED exitCode
    /\ UNCHANGED <<variant, missingVars, phase, server, reservationListener,
                   subsCreated, signals, shutdownLog, tasks, sends,
                   fetchedKinds>>

-----------------------------------------------------------------------------
(* Shutdown: variant 1 only, lines 242-258 *)

\* The two statements of the handler in the other order.
ShutdownSteps_CloseFirst ==
    (IF server # "none" THEN <<"close">> ELSE <<>>)
    \o (IF reservationListener # 0 THEN <<"unsubscribe">> ELSE <<>>)

\* What one run of a signal handler appends to the log.
ShutdownSteps ==
    (IF reservationListener # 0 THEN <<"unsubscribe">> ELSE <<>>)
    \o (IF server # "none" THEN <<"close">> ELSE <<>>)

Signal(sig) ==
    /\ Started /\ variant = 1
    /\ signals < MaxSignals
    /\ signals' = signals + 1
    /\ invoked' = InvokeStoredHandle(invoked)
    /\ active' = ReleaseStoredHandle(active)
    /\ server' = IF server = "listening" THEN "closing" ELSE server
    /\ shutdownLog' = shutdownLog \o ShutdownSteps
    /\ UNCHANGED <<variant, missingVars, phase, exitCode, reservationListener,
                   subsCreated, timers, tasks, sends, fetchedKinds>>

\* The callback given to server.close: process.exit(0).
ServerClosed ==
    /\ Started /\ server = "closing"
    /\ server' = "closed"
    /\ exitCode' = 0
    /\ shutdownLog' = Append(shutdownLog, "exit")
    /\ UNCHANGED <<variant, missingVars, phase, reservationListener,
                   subsCreated, active, invoked, timers, signals, tasks,
                   sends, fetchedKinds>>

-----------------------------------------------------------------------------
(* The snapshot callback: lines 162-174 and 397-418 *)

InFlight == BagToSet(tasks)

Without(tk) == tasks (-) SetToBag({tk})
Replaced(tk, new) == Without(tk) (+) SetToBag({new})

\* The store calls the snapshot callback of an active subscription; it does
\* not wait for the promise of an earlier call.
Deliver(batch) ==
    /\ Started /\ active # {}
    /\ BagCardinality(tasks) < MaxTasks
    /\ tasks' = tasks (+) SetToBag({NewTask(batch)})
    /\ UNCHANGED <<lifecycleVars, sends, fetchedKinds>>

\* The test written as `change.type !== 'removed'`.
IsHandled_NotRemoved(type) == type # "removed"

\* if (change.type === 'modified')
IsHandled(type) == type = "modified"

\* The handler call not awaited: the loop goes on while the call is pending.
AtLoop_NoAwait(tk) == tk.pc \in {"loop", "skipped", "done", "fetch", "send"}

\* The loop runs between handler calls: the call is awaited.
AtLoop(tk) == tk.pc \in {"loop", "skipped", "done"}

\* The changes the loop has not started on.
Remaining(tk) == IF tk.pc = "loop" THEN tk.rest ELSE Tail(tk.rest)

\* The for loop has run out of changes: the callback returns.
LoopEnd(tk) ==
    /\ Running /\ AtLoop(tk)
    /\ Remaining(tk) = <<>>
    /\ tasks' = Without(tk)
    /\ UNCHANGED <<lifecycleVars, sends, fetchedKinds>>

\* A change that is not handled: next iteration.
LoopSkip(tk) ==
    /\ Running /\ AtLoop(tk)
    /\ Remaining(tk) # <<>>
    /\ ~IsHandled(Head(Remaining(tk)))
    /\ tasks' = Replaced(tk, [NewTask(Remaining(tk)) EXCEPT !.pc = "skipped"])
    /\ UNCHANGED <<lifecycleVars, sends, fetchedKinds>>

\* A handled change, up to the first await of the handler. `res` is
\* change.doc.data(); `hasPrevious` says whether change.doc.previous is
\* defined, which variant 2 dereferences outside its try block (line 404):
\* the TypeError rejects the callback's promise and ends the run.
LoopHandle(tk, res, hasPrevious) ==
    /\ Running /\ AtLoop(tk)
    /\ Remaining(tk) # <<>>
    /\ IsHandled(Head(Remaining(tk)))
    /\ IF variant = 2 /\ ~hasPrevious
       THEN /\ tasks' = Without(tk)
            /\ UNCHANGED fetchedKinds
       ELSE \* await db.collection('drivers').doc(driverId).get()
            /\ tasks' = Replaced(tk, [NewTask(Remaining(tk)) EXCEPT
                                         !.pc = "fetch", !.cur = res])
            /\ fetchedKinds' = fetchedKinds \cup {Head(Remaining(tk))}
    /\ UNCHANGED <<lifecycleVars, sends>>

\* The call without try/catch: an exception of the handler ends the run.
HandlerFinished_NoCatch(tk, o) ==
    IF o.threw THEN {}
    ELSE {[tk EXCEPT !.pc = "done", !.err = o.err, !.threw = o.threw]}

\* try { await handleReservationStatusChange(...) } catch (error) { log }
\* (lines 167-171, 411-415): whatever the handler did, the loop goes on.
HandlerFinished(tk, o) ==
    {[tk EXCEPT !.pc = "done", !.err = o.err, !.threw = o.threw]}

\* An awaited call of the handler settles: the driver document arrives
\* (lines 97, 310) or sgMail.send settles (lines 143, 379).
HandlerResume(tk, sendOk) ==
    /\ Running /\ tk.pc \in {"fetch", "send"}
    /\ IF tk.pc = "fetch"
       THEN IF AfterFetch(tk.cur).err = "none"
            THEN /\ sends' = sends \cup {Message(tk.cur)}
                 /\ tasks' = Replaced(tk, [tk EXCEPT !.pc = "send",
                                                      !.sent = @ + 1])
            ELSE /\ tasks' = Without(tk) (+)
                        SetToBag(HandlerFinished(tk, AfterFetch(tk.cur)))
                 /\ UNCHANGED sends
       ELSE /\ tasks' = Without(tk) (+)
                   SetToBag(HandlerFinished(tk,
                       IF sendOk THEN Outcome("none", FALSE)
                       ELSE Outcome("DispatchFailed", TRUE)))
            /\ UNCHANGED sends
    /\ UNCHANGED <<lifecycleVars, fetchedKinds>>

-----------------------------------------------------------------------------
Next ==
    \/ ValidateEnv
    \/ InitializeApp
    \/ StartListener
    \/ StartHttp
    \/ \E s \in SubIds : SubscriptionError(s)
    \/ ResubscribeTimer
    \/ UncaughtException
    \/ \E sig \in {"SIGTERM", "SIGINT"} : Signal(sig)
    \/ ServerClosed
    \/ \E batch \in Batches : Deliver(batch)
    \/ \E tk \in InFlight : LoopEnd(tk)
    \/ \E tk \in InFlight : LoopSkip(tk)
    \/ \E tk \in InFlight, res \in Reservations, hasPrevious \in BOOLEAN :
          LoopHandle(tk, res, hasPrevious)
    \/ \E tk \in InFlight, sendOk \in BOOLEAN : HandlerResume(tk, sendOk)

Spec == Init /\ [][Next]_vars

-----------------------------------------------------------------------------
(* Properties of the change handler and of the batch loop *)

InHandler(tk) == tk.pc \in {"fetch", "send", "done"}

\* The statuses the template table is documented to cover, with the subject
\* documented for each.
RegisteredSubject ==
    [confirmed |-> "Course confirmée par votre chauffeur",
     cancelled |-> "Annulation de votre course"]

RegisteredStatuses == DOMAIN RegisteredSubject

HasDescriptor(status) == templateType(status) \in DOMAIN emailTemplates

\* C1: a 'modified' change whose reservation has a registered status, a
\* customer email and an existing driver gets exactly one send, with the
\* subject and template registered for the status. Stated for the handler
\* calls that are over.
C1_OneSendPerValidChange ==
    \A tk \in InFlight :
        (/\ tk.pc = "done"
         /\ tk.cur.status \in RegisteredStatuses
         /\ tk.cur.email # ""
         /\ tk.cur.driverId \in DriverDocs)
        => /\ tk.sent = 1
           /\ \E m \in sends :
                 /\ m.res = tk.cur
                 /\ m.subject = RegisteredSubject[tk.cur.status]
                 /\ m.templateId = TemplateFor(tk.cur.status).templateId

\* C2: "driver_" + status resolves for both statuses the subscription
\* admits, to the documented subjects, and no handler call for such a status
\* ends as UnknownStatus.
C2_FilterStatusesResolve ==
    \A tk \in InFlight :
        (InHandler(tk) /\ tk.cur.status \in FilterStatuses)
        => /\ HasDescriptor(tk.cur.status)
           /\ TemplateFor(tk.cur.status).subject
                 = RegisteredSubject[tk.cur.status]
           /\ tk.err # "UnknownStatus"

\* C3: the handler never sends for a reservation whose driver does not
\* exist, whose customer email is empty or whose status has no descriptor.
C3_NoSendForInvalid ==
    /\ \A m \in sends :
          /\ m.res.driverId \in DriverDocs
          /\ m.res.email # ""
          /\ HasDescriptor(m.res.status)
    /\ \A tk \in InFlight :
          tk.sent > 0 => /\ tk.cur.driverId \in DriverDocs
                         /\ tk.cur.email # ""
                         /\ HasDescriptor(tk.cur.status)

\* A handler call for a reservation without driver is over, nothing sent.
C3_Witness ==
    \E tk \in InFlight :
        /\ tk.pc = "done"
        /\ tk.cur.driverId \notin DriverDocs
        /\ tk.sent = 0
        /\ sends = {}

\* The runs a step takes out of, and puts into, the bag.
Gone == BagToSet(tasks (-) tasks')
Came == BagToSet(tasks' (-) tasks)

\* C4: when an awaited handler call settles, with whatever failure, the run
\* stays in the loop with all its later changes, and the subscription state
\* (active subscriptions, stored handle, timers) is left alone.
C4_FailureIsolated ==
    [][\A tk \in Gone :
          tk.pc \in {"fetch", "send"}
          => /\ \E new \in Came :
                   /\ new.pc \in {"send", "done"}
                   /\ new.rest = tk.rest
                   /\ new.cur = tk.cur
             /\ UNCHANGED lifecycleVars]_vars

\* A failure was caught while a later change of the batch is still to come
\* and the subscription is active, with no resubscription pending.
C4_Witness ==
    \E tk \in InFlight :
        /\ tk.pc = "done"
        /\ tk.err # "none"
        /\ tk.threw
        /\ Len(tk.rest) > 1
        /\ active # {}
        /\ timers = 0

\* C10: only 'modified' changes reach the handler: no driver fetch, handler
\* call or send is made for an 'added' or 'removed' change.
C10_OnlyModifiedHandled ==
    /\ fetchedKinds \subseteq {"modified"}
    /\ \A tk \in InFlight :
          /\ InHandler(tk) => Head(tk.rest) = "modified"
          /\ tk.pc = "skipped" => /\ Head(tk.rest) \in {"added", "removed"}
                                  /\ tk.sent = 0
                                  /\ tk.cur = NoReservation

\* An 'added' or 'removed' change has been passed over.
C10_Witness ==
    \E tk \in InFlight :
        /\ tk.pc = "skipped"
        /\ Head(tk.rest) \in {"added", "removed"}
        /\ fetchedKinds = {"modified"}

-----------------------------------------------------------------------------
(* Properties of the subscription and of shutdown *)

\* The timer fires once its delay is over; the listener finishes closing.
FairSpec ==
    /\ Init /\ [][Next]_vars
    /\ WF_vars(ResubscribeTimer)
    /\ WF_vars(ServerClosed)

\* C5: a subscription error is followed by exactly one resubscription, and
\* there are never two active subscriptions, whatever subscription errors
\* and uncaught exceptions occurred.
C5_SingleSubscription == Cardinality(active) <= 1

\* C6: once a signal handler has called the stored unsubscribe handle, no
\* subscription is opened any more.
C6_NoSubscriptionAfterShutdown ==
    [][(signals > 0 /\ invoked[reservationListener] > 0)
          => subsCreated' = subsCreated]_vars

\* C7: the shutdown handler releases the subscription that is active, also
\* after reconnections: when it has run, no subscription is active.
C7_ShutdownReleasesActive ==
    [][signals' > signals => active' = {}]_vars

\* C8: a subscription error (a subscription ends without its handle being
\* called) leaves the process running and arms a resubscription, however
\* many errors came before; and while the process runs, every pending
\* resubscription leads to a brand-new active subscription.
C8_ReconnectsForever ==
    /\ [][(active' # active /\ active' \subseteq active /\ invoked' = invoked)
             => (timers' = timers + 1 /\ exitCode' = NotExited)]_vars
    /\ \A k \in 0..MaxSubs :
          (timers > 0 /\ subsCreated = k)
             ~> (\/ subsCreated > k /\ subsCreated \in active
                 \/ exitCode # NotExited)

\* The third subscription is active: two errors were recovered from.
C8_Witness ==
    /\ variant = 1
    /\ subsCreated = MaxSubs
    /\ active = {MaxSubs}
    /\ signals = 0
    /\ exitCode = NotExited

-----------------------------------------------------------------------------
(* Duplicates, retries and order *)

\* A reservation that passes every check of the specified handler.
ValidReservation(res) ==
    /\ res.status \in RegisteredStatuses
    /\ res.email # ""
    /\ res.driverId \in DriverDocs
    /\ res.price = "number"

C13_InOrderOneAtATime ==
    [][\A new \in Came :
          new.pc = "fetch"
          => \E tk \in Gone :
                /\ tk.pc \in {"loop", "skipped", "done"}
                /\ new.rest = Remaining(tk)]_vars

\* The handler call for the first change of a batch is over and the second
\* change, also 'modified', has not been started.
C13_Witness ==
    \E tk \in InFlight :
        /\ tk.pc = "done"
        /\ Len(tk.rest) = 2
        /\ tk.rest[2] = "modified"


(***************************************************************************)
(* The handler's failures                                                  *)
(***************************************************************************)
\* C14: a handler call that is over failed at the first failing step in the
\* order driver lookup, customer email, template resolution, and reported the
\* failure to its caller by throwing: DriverNotFound for a missing driver,
\* MissingRecipient for an empty email with an existing driver, UnknownStatus
\* for a status without a descriptor with driver and email present.
C14_FirstFailingStep ==
    \A tk \in InFlight :
        (tk.pc = "done" /\ tk.cur.price = "number")
        => /\ tk.cur.driverId \notin DriverDocs
              => (tk.err = "DriverNotFound" /\ tk.threw)
           /\ (tk.cur.driverId \in DriverDocs /\ tk.cur.email = "")
              => (tk.err = "MissingRecipient" /\ tk.threw)
           /\ (/\ tk.cur.driverId \in DriverDocs
               /\ tk.cur.email # ""
               /\ ~HasDescriptor(tk.cur.status))
              => (tk.err = "UnknownStatus" /\ tk.threw)

(***************************************************************************)
(* Process-level errors, shutdown twice, start-up                          *)
(***************************************************************************)
\* C15: the only step that schedules a resubscription is a subscription
\* error: it ends one active subscription and invokes no stored handle. An
\* uncaught error never starts an unsubscribe-and-resubscribe cycle.
C15_UncaughtErrorIsFatal ==
    [][timers' > timers
       => /\ invoked' = invoked
          /\ \E s \in active : active' = active \ {s}]_vars

C17_FailFastThenOrdered ==
    /\ missingVars # {} => (subsCreated = 0 /\ server = "none")
    /\ server # "none" => subsCreated >= 1

(***************************************************************************)
(* Payload formatting, overlap of handler calls                            *)
(***************************************************************************)
\* C18: building the payload never raises: a handler call that is over ended
\* without failure or with one of DriverNotFound, MissingRecipient,
\* UnknownStatus, DispatchFailed, whatever the optional fields hold.
C18_FormattingNeverRaises ==
    \A tk \in InFlight :
        tk.pc = "done"
        => tk.err \in {"none", "DriverNotFound", "MissingRecipient",
                       "UnknownStatus", "DispatchFailed"}

\* C19: at any time at most one handler call is between the start of its
\* driver fetch and the completion of its send, over all the runs of the
\* snapshot callback.
C19_NoOverlapAcrossBatches ==
    LET H == {tk \in InFlight : tk.pc \in {"fetch", "send"}}
    IN  /\ Cardinality(H) <= 1
        /\ \A tk \in H : CopiesIn(tk, tasks) = 1

====
